---- MODULE Spec2Model ----
(***************************************************************************)
(* Fixed-timestep frame clock (src/src/time_manager.c).                    *)
(*                                                                         *)
(* Numbers.  A C double is modelled as an integer count of quanta: the     *)
(* value 1.0 is One quanta, so a duration of One quanta is one second and  *)
(* a dimensionless 1.0 (a time scale, an interpolation alpha) is One as    *)
(* well.  Products and quotients round toward zero onto that grid, as a    *)
(* double rounds onto its own grid.  The magnitudes of the source are      *)
(* scaled down so that they fit the grid while keeping their order:        *)
(*    DBL_EPSILON < 1e-12 < one clock tick < one second.                   *)
(* The time source counts ticks (nanoseconds in the source), NsPerSecond   *)
(* of them per second.                                                     *)
(***************************************************************************)
EXTENDS Integers, Sequences, FiniteSets, TLC

\* ------------------------------------------------------------------ bounds
One == 480                  \* quanta in 1.0 (resolution of a double)
NsPerSecond == 60           \* clock ticks per second (1000000000.0 in the source)
MaxFrameCount == 2          \* cap on fpsFrameCount (frames folded into one FPS window)
MaxNs == 80                 \* largest sample the time source returns
MaxCalls == 5               \* calls made on one clock after its construction

\* ------------------------------------------------------ program constants
DBL_EPSILON == 1            \* <float.h>, smallest grid step
StepEpsilon == 2            \* the 1e-12 added before floor
DefaultPhysicsHz == 60
DefaultMaxPhysicsSteps == 5
DefaultMaxFrameTime == One \div 4      \* 0.25

\* ------------------------------------------------------------ double math
Abs(x) == IF x < 0 THEN -x ELSE x

\* integer quotient rounded toward zero, b > 0
TruncDiv(a, b) == IF a >= 0 THEN a \div b ELSE -((-a) \div b)

DMul(a, b) == TruncDiv(a * b, One)          \* a * b
DDiv(a, b) == TruncDiv(a * One, b)          \* a / b, b > 0
ToDouble(n) == n * One                      \* (double)n
Floor(x) == x \div One                      \* floor(x), as an integer
fmax(a, b) == IF a >= b THEN a ELSE b
fmin(a, b) == IF a <= b THEN a ELSE b
fmod(a, b) == IF a >= 0 THEN a % b ELSE -((-a) % b)

\* llround: nearest integer, halves away from zero
llround(x) == IF x >= 0 THEN (2 * x + One) \div (2 * One)
              ELSE -((2 * (-x) + One) \div (2 * One))

Clamp(x, min, max) == fmax(fmin(x, max), min)

\* a quiet NaN, a value off the grid: unordered, so every <, <=, > and >= with
\* it is false.  It enters only as an argument of TmSetPhysicsTimeStep.
NaN == 0 - 1000 * One
isnan(x) == x = NaN

\* what llround may return for a NaN (unspecified), after the cast to size_t
UnspecifiedLlround == {0, 4 * One}

\* ------------------------------------------------------------------ inputs
Samples == {0, 1, 7, MaxNs}
TimeSources == {"GetHighResolutionTime", "fake_now"}
NullConfig == [null |-> TRUE, physicsHz |-> 0, maxPhysicsSteps |-> 0, maxFrameTime |-> 0]
Configs == {NullConfig,
            [null |-> FALSE, physicsHz |-> 30, maxPhysicsSteps |-> 2,
             maxFrameTime |-> One \div 10]}
HzInputs == {0, 60, 120}
TimeStepInputs == {0 - 3, 0, 5, 7, 2 * One, 3 * One, NaN}
MaxFrameTimeInputs == {One \div 10, One \div 4}
MaxPhysicsStepsInputs == {0, 2, 5}
TimeScaleInputs == {0 - One, 0, One \div 2, One}

VARIABLES
    tm,       \* the TimeManager struct
    ret,      \* the FrameTimingData the last call returned (NoFrame for a void call)
    op,       \* the last call: its name, its input, and the branch TmBeginFrame took
    calls,    \* number of calls made since construction
    fresh,    \* history: no TmBeginFrame since construction or the last TmReset
    pause,    \* history: the TmPause .. TmResume bracket in progress
    handle,   \* what TmCreate did: malloc's outcome, the memset, the value returned
    hist      \* history: what the calls so far took from the time source and returned

vars == <<tm, ret, op, calls, fresh, pause, handle, hist>>

\* ------------------------------------------------------------ construction
TmDefaultConfig == [null |-> FALSE, physicsHz |-> DefaultPhysicsHz,
                    maxPhysicsSteps |-> DefaultMaxPhysicsSteps,
                    maxFrameTime |-> DefaultMaxFrameTime]

\* the fields after memset that the initialiser forgets to set to 1.0
InitTimeManager_ZeroScale(config, sample) ==
    [physicsHz |-> config.physicsHz,
     physicsTimeStep |-> DDiv(One, ToDouble(config.physicsHz)),
     maxFrameTime |-> config.maxFrameTime,
     maxPhysicsSteps |-> config.maxPhysicsSteps,
     timeScale |-> 0,
     accumulator |-> 0,
     now |-> "GetHighResolutionTime",
     lastTime |-> sample,
     firstFrame |-> TRUE,
     physicsStepsThisFrame |-> 0,
     averageFps |-> 0,
     fpsAccumulator |-> 0,
     fpsFrameCount |-> 0,
     timeScaleBeforePause |-> 0]

InitTimeManager(config, sample) ==
    [physicsHz |-> config.physicsHz,
     physicsTimeStep |-> DDiv(One, ToDouble(config.physicsHz)),
     maxFrameTime |-> config.maxFrameTime,
     maxPhysicsSteps |-> config.maxPhysicsSteps,
     timeScale |-> One,
     accumulator |-> 0,
     now |-> "GetHighResolutionTime",
     lastTime |-> sample,
     firstFrame |-> TRUE,
     physicsStepsThisFrame |-> 0,
     averageFps |-> 0,
     fpsAccumulator |-> 0,
     fpsFrameCount |-> 0,
     timeScaleBeforePause |-> One]

TmCreate(config, sample) ==
    IF config.null THEN InitTimeManager(TmDefaultConfig, sample)
    ELSE InitTimeManager(config, sample)

\* TmCreate around the initialiser: malloc, then memset(tm, 0, sizeof *tm),
\* then the test of tm.  After a failed malloc the memset writes through the
\* null pointer, which is undefined: the build either goes on to return NULL
\* or faults.
UndefinedOutcomes == {"NULL", "fault"}

TmCreateHandle(mallocOk, undefined) ==
    [malloc |-> mallocOk,
     memsetOnNull |-> ~mallocOk,
     result |-> IF mallocOk THEN "tm" ELSE undefined]

\* the struct variable when no clock was created
NoTimeManager ==
    [physicsHz |-> 0, physicsTimeStep |-> 0, maxFrameTime |-> 0,
     maxPhysicsSteps |-> 0, timeScale |-> 0, accumulator |-> 0,
     now |-> "none", lastTime |-> 0, firstFrame |-> FALSE,
     physicsStepsThisFrame |-> 0, averageFps |-> 0, fpsAccumulator |-> 0,
     fpsFrameCount |-> 0, timeScaleBeforePause |-> 0]

Created == handle.result = "tm"

\* the value a call without a result leaves in ret
NoFrame == [physicsSteps |-> 0, fixedTimestep |-> 0, interpolationAlpha |-> 0,
            frameTime |-> 0, lagging |-> FALSE, rawFrameTime |-> 0,
            unscaledFrameTime |-> 0, currentTimeScale |-> 0]

\* pause.state: "none", "open" (TmPause made, only TmBeginFrame calls since),
\* "resumed" (TmResume has just closed an open bracket); scale is the time
\* scale read before the TmPause call, framed whether a frame ran inside.
NoPause == [state |-> "none", scale |-> 0, framed |-> FALSE]

Call(name, arg, steady) == [name |-> name, arg |-> arg, steady |-> steady]

\* hist.sample: the sample the time source returned to the last call that read it;
\* hist.period: "none" before the first-frame call, "exact" since that call while
\*   every later sample was no earlier than the one before it and the source was
\*   not replaced, "broken" otherwise;
\* hist.drift: over the steady-state calls of an exact period, the sum of
\*   rawFrameTime minus the time the source advanced, in quanta * NsPerSecond;
\* hist.back: the last call was a steady-state TmBeginFrame whose sample was
\*   earlier than the one before it;
\* hist.pauseScale: the time scale read by the last TmPause call, 1.0 before any;
\* hist.pauses: how many TmPause calls were just made in a row (2 for two or more);
\* hist.doubled: the last call was a TmResume right after two TmPause in a row;
\* hist.steps: physicsSteps of the snapshot the last TmBeginFrame call returned,
\*   0 when there was none since construction or the last TmReset.
NoHistory(sample) ==
    [sample |-> sample, period |-> "none", drift |-> 0, back |-> FALSE,
     pauseScale |-> One, pauses |-> 0, doubled |-> FALSE, steps |-> 0]

History(h, name, arg, steady, timeScale, r) ==
    LET h0 == [h EXCEPT !.back = FALSE, !.pauses = 0, !.doubled = FALSE]
    IN  CASE name = "TmBeginFrame" /\ ~steady ->
                 [h0 EXCEPT !.sample = arg, !.period = "exact", !.drift = 0,
                            !.steps = r.physicsSteps]
          [] name = "TmBeginFrame" /\ steady ->
                 LET exact == h.period = "exact" /\ arg >= h.sample
                 IN  [h0 EXCEPT !.sample = arg,
                                !.back = arg < h.sample,
                                !.period = IF exact THEN "exact" ELSE "broken",
                                !.drift = IF exact
                                          THEN h.drift + r.rawFrameTime * NsPerSecond
                                                       - (arg - h.sample) * One
                                          ELSE 0,
                                !.steps = r.physicsSteps]
          [] name = "TmSetTimeSource" ->
                 [h0 EXCEPT !.sample = arg.sample,
                            !.period = IF h.period = "none" THEN "none" ELSE "broken",
                            !.drift = 0]
          [] name = "TmReset" ->
                 [h0 EXCEPT !.sample = arg, !.period = "none", !.drift = 0,
                            !.steps = 0]
          [] name = "TmPause" ->
                 [h0 EXCEPT !.pauseScale = timeScale,
                            !.pauses = IF h.pauses = 0 THEN 1 ELSE 2]
          [] name = "TmResume" -> [h0 EXCEPT !.doubled = h.pauses = 2]
          [] OTHER -> h0

Init ==
    /\ \E config \in Configs, sample \in Samples,
          mallocOk \in BOOLEAN, undefined \in UndefinedOutcomes :
          /\ handle = TmCreateHandle(mallocOk, undefined)
          /\ tm = IF mallocOk THEN TmCreate(config, sample) ELSE NoTimeManager
          /\ op = Call("TmCreate", config, FALSE)
          /\ hist = NoHistory(IF mallocOk THEN sample ELSE 0)
    /\ ret = NoFrame
    /\ calls = 0
    /\ fresh = TRUE
    /\ pause = NoPause

\* --------------------------------------------------------------- UpdateFps
\* the average published on every frame, the window never closed
UpdateFpsStats_Running(t, frameTime) ==
    LET acc == t.fpsAccumulator + frameTime
        cnt == t.fpsFrameCount + 1
    IN  IF acc > 0
        THEN [t EXCEPT !.averageFps = DDiv(ToDouble(cnt), acc),
                       !.fpsAccumulator = IF acc >= One THEN 0 ELSE acc,
                       !.fpsFrameCount = IF acc >= One THEN 0 ELSE cnt]
        ELSE [t EXCEPT !.fpsAccumulator = acc, !.fpsFrameCount = cnt]

UpdateFpsStats(t, frameTime) ==
    LET acc == t.fpsAccumulator + frameTime
        cnt == t.fpsFrameCount + 1
    IN  IF acc >= One
        THEN [t EXCEPT !.averageFps = DDiv(ToDouble(cnt), acc),
                       !.fpsAccumulator = 0,
                       !.fpsFrameCount = 0]
        ELSE [t EXCEPT !.fpsAccumulator = acc, !.fpsFrameCount = cnt]

\* ------------------------------------------------------------ TmBeginFrame
\* (double)(currentTime.nanoseconds - lastTime.nanoseconds) / 1000000000.0, clamped at 0
\* the delta measured without the clamp at 0
DeltaTime_Unclamped(currentTime, lastTime) ==
    DDiv(ToDouble(currentTime - lastTime), ToDouble(NsPerSecond))

DeltaTime(currentTime, lastTime) ==
    fmax(DDiv(ToDouble(currentTime - lastTime), ToDouble(NsPerSecond)), 0)

\* the measured delta passed on without its cap
CappedDeltaTime_Uncapped(deltaTime, maxFrameTime) == deltaTime

CappedDeltaTime(deltaTime, maxFrameTime) == fmin(deltaTime, maxFrameTime)

ScaledFrameTime(cappedDeltaTime, timeScale) == DMul(cappedDeltaTime, timeScale)

\* floor((accumulator + 1e-12) / physicsTimeStep)
StepsD(accumulator, physicsTimeStep) ==
    Floor(DDiv(accumulator + StepEpsilon, physicsTimeStep))

\* lagging already when the candidate reaches the cap
Lagging_AtCap(stepsD, maxPhysicsSteps) == stepsD >= maxPhysicsSteps

Lagging(stepsD, maxPhysicsSteps) == stepsD > maxPhysicsSteps

\* the step count without its cap
Steps_Uncapped(stepsD, maxPhysicsSteps) == stepsD

Steps(stepsD, maxPhysicsSteps) ==
    IF Lagging(stepsD, maxPhysicsSteps) THEN maxPhysicsSteps ELSE stepsD

\* one step consumed instead of all whole steps
Remainder_OneStep(accumulator, physicsTimeStep) ==
    IF accumulator >= physicsTimeStep THEN accumulator - physicsTimeStep
    ELSE accumulator

\* the remainder of the accumulator with the step epsilon added
Remainder_WithEpsilon(accumulator, physicsTimeStep) ==
    LET remainder == fmod(accumulator + StepEpsilon, physicsTimeStep)
    IN  IF remainder < 0 THEN remainder + physicsTimeStep ELSE remainder

Remainder(accumulator, physicsTimeStep) ==
    LET remainder == fmod(accumulator, physicsTimeStep)
    IN  IF remainder < 0 THEN remainder + physicsTimeStep ELSE remainder

\* the fraction still missing to the next step instead of the fraction reached
Alpha_Missing(accumulator, physicsTimeStep) ==
    Clamp(One - DDiv(accumulator, physicsTimeStep), 0, One)

Alpha(accumulator, physicsTimeStep) ==
    Clamp(DDiv(accumulator, physicsTimeStep), 0, One)

FirstFrameData(t) ==
    [physicsSteps |-> 0, fixedTimestep |-> t.physicsTimeStep,
     interpolationAlpha |-> 0, frameTime |-> 0, lagging |-> FALSE,
     rawFrameTime |-> 0, unscaledFrameTime |-> 0,
     currentTimeScale |-> t.timeScale]

\* the first call measuring from the construction sample
FirstFrame_Measured(t, currentTime) ==
    LET deltaTime == DeltaTime(currentTime, t.lastTime)
    IN  [tm |-> [t EXCEPT !.firstFrame = FALSE, !.lastTime = currentTime,
                          !.accumulator = t.accumulator + deltaTime],
         ret |-> [FirstFrameData(t) EXCEPT !.rawFrameTime = deltaTime,
                                           !.frameTime = deltaTime]]

\* the first call leaving lastTime at the sample taken before it
FirstFrame_StaleSample(t, currentTime) ==
    [tm |-> [t EXCEPT !.firstFrame = FALSE],
     ret |-> FirstFrameData(t)]

\* the first call leaving firstFrame set
FirstFrame_Repeated(t, currentTime) ==
    [tm |-> [t EXCEPT !.lastTime = currentTime],
     ret |-> FirstFrameData(t)]

FirstFrame(t, currentTime) ==
    [tm |-> [t EXCEPT !.firstFrame = FALSE, !.lastTime = currentTime],
     ret |-> FirstFrameData(t)]

SteadyFrame(t, currentTime) ==
    LET deltaTime == DeltaTime(currentTime, t.lastTime)
        cappedDeltaTime == CappedDeltaTime(deltaTime, t.maxFrameTime)
        scaledFrameTime == ScaledFrameTime(cappedDeltaTime, t.timeScale)
        accumulator == t.accumulator + scaledFrameTime
        stepsD == StepsD(accumulator, t.physicsTimeStep)
        lagging == Lagging(stepsD, t.maxPhysicsSteps)
        steps == Steps(stepsD, t.maxPhysicsSteps)
        remainder == Remainder(accumulator, t.physicsTimeStep)
        alpha == Alpha(remainder, t.physicsTimeStep)
        t1 == [t EXCEPT !.lastTime = currentTime,
                        !.physicsStepsThisFrame = steps,
                        !.accumulator = remainder]
    IN  [tm |-> UpdateFpsStats(t1, deltaTime),
         ret |-> [physicsSteps |-> steps, fixedTimestep |-> t.physicsTimeStep,
                  interpolationAlpha |-> alpha, frameTime |-> scaledFrameTime,
                  lagging |-> lagging, rawFrameTime |-> deltaTime,
                  unscaledFrameTime |-> cappedDeltaTime,
                  currentTimeScale |-> t.timeScale]]

\* the assertion physicsTimeStep > 0.0 of the steady-state path does not hold
AssertFails(t) ==
    /\ ~t.firstFrame
    /\ ~(~isnan(t.physicsTimeStep) /\ t.physicsTimeStep > 0)

TmBeginFrame(t, currentTime) ==
    IF t.firstFrame THEN FirstFrame(t, currentTime)
    ELSE SteadyFrame(t, currentTime)

\* ----------------------------------------------------------------- setters
\* the rate stored without recomputing the time step
TmSetPhysicsHz_KeepStep(t, physicsHz) ==
    IF physicsHz = 0 THEN t ELSE [t EXCEPT !.physicsHz = physicsHz]

\* a new rate that throws away the time left in the accumulator
TmSetPhysicsHz_DropLeftover(t, physicsHz) ==
    IF physicsHz = 0 THEN t
    ELSE [t EXCEPT !.physicsHz = physicsHz,
                   !.physicsTimeStep = DDiv(One, ToDouble(physicsHz)),
                   !.accumulator = 0]

TmSetPhysicsHz(t, physicsHz) ==
    IF physicsHz = 0 THEN t
    ELSE [t EXCEPT !.physicsHz = physicsHz,
                   !.physicsTimeStep = DDiv(One, ToDouble(physicsHz))]

\* the rate truncated instead of rounded, and not raised to 1
TmSetPhysicsTimeStep_Truncated(t, physicsTimeStep, unspecified) ==
    IF ~isnan(physicsTimeStep) /\ physicsTimeStep <= 0 THEN t
    ELSE [t EXCEPT !.physicsTimeStep = physicsTimeStep,
                   !.physicsHz = IF isnan(physicsTimeStep) THEN unspecified
                                 ELSE Floor(DDiv(One, physicsTimeStep))]

\* the time step stored without recomputing the rate
TmSetPhysicsTimeStep_KeepHz(t, physicsTimeStep, unspecified) ==
    IF ~isnan(physicsTimeStep) /\ physicsTimeStep <= 0 THEN t
    ELSE [t EXCEPT !.physicsTimeStep = physicsTimeStep]

\* unspecified: the value llround returns when its argument is a NaN
TmSetPhysicsTimeStep(t, physicsTimeStep, unspecified) ==
    IF ~isnan(physicsTimeStep) /\ physicsTimeStep <= 0 THEN t
    ELSE LET hzD == IF isnan(physicsTimeStep) THEN NaN
                    ELSE DDiv(One, physicsTimeStep)
             hz == IF isnan(hzD) THEN unspecified ELSE llround(hzD)
         IN  [t EXCEPT !.physicsTimeStep = physicsTimeStep,
                       !.physicsHz = IF hz = 0 THEN 1 ELSE hz]

TmSetMaxFrameTime(t, maxFrameTime) ==
    [t EXCEPT !.maxFrameTime = fmax(maxFrameTime, DBL_EPSILON)]

TmSetMaxPhysicsSteps(t, maxPhysicsSteps) ==
    [t EXCEPT !.maxPhysicsSteps = IF maxPhysicsSteps > 0 THEN maxPhysicsSteps ELSE 1]

TmSetTimeScale(t, timeScale) ==
    [t EXCEPT !.timeScale = IF timeScale < 0 THEN 0 ELSE timeScale]

\* the source replaced without re-seeding lastTime
TmSetTimeSource_NoReseed(t, nowFn, sample) == [t EXCEPT !.now = nowFn]

TmSetTimeSource(t, nowFn, sample) ==
    [t EXCEPT !.now = nowFn, !.lastTime = sample]

\* a reset that keeps the time scale in effect
TmReset_KeepScale(t, sample) ==
    [t EXCEPT !.firstFrame = TRUE,
              !.accumulator = 0,
              !.lastTime = sample,
              !.physicsStepsThisFrame = 0,
              !.fpsAccumulator = 0,
              !.fpsFrameCount = 0,
              !.averageFps = 0]

\* a reset that also forgets the scale saved by TmPause
TmReset_ForgetSaved(t, sample) ==
    [t EXCEPT !.firstFrame = TRUE,
              !.accumulator = 0,
              !.lastTime = sample,
              !.physicsStepsThisFrame = 0,
              !.fpsAccumulator = 0,
              !.fpsFrameCount = 0,
              !.timeScale = One,
              !.averageFps = 0,
              !.timeScaleBeforePause = One]

\* a reset that leaves the step count of the last frame in place
TmReset_KeepSteps(t, sample) ==
    [t EXCEPT !.firstFrame = TRUE,
              !.accumulator = 0,
              !.lastTime = sample,
              !.fpsAccumulator = 0,
              !.fpsFrameCount = 0,
              !.timeScale = One,
              !.averageFps = 0]

TmReset(t, sample) ==
    [t EXCEPT !.firstFrame = TRUE,
              !.accumulator = 0,
              !.lastTime = sample,
              !.physicsStepsThisFrame = 0,
              !.fpsAccumulator = 0,
              !.fpsFrameCount = 0,
              !.timeScale = One,
              !.averageFps = 0]

\* the scale saved after it was zeroed
TmPause_SaveAfterZero(t) ==
    [t EXCEPT !.timeScale = 0, !.timeScaleBeforePause = 0]

\* a pause that leaves an already paused clock as it is
TmPause_Guarded(t) ==
    IF Abs(t.timeScale) <= DBL_EPSILON THEN t
    ELSE [t EXCEPT !.timeScaleBeforePause = t.timeScale, !.timeScale = 0]

TmPause(t) ==
    [t EXCEPT !.timeScaleBeforePause = t.timeScale, !.timeScale = 0]

TmResume(t) == [t EXCEPT !.timeScale = t.timeScaleBeforePause]

TmIsPaused(t) == Abs(t.timeScale) <= DBL_EPSILON

\* ----------------------------------------------------------------- getters
TmGetAccumulator(t) == t.accumulator
TmGetTimeScale(t) == t.timeScale
TmGetPhysicsTimeStep(t) == t.physicsTimeStep
TmGetMaxFrameTime(t) == t.maxFrameTime
TmGetMaxPhysicsSteps(t) == t.maxPhysicsSteps
TmGetPhysicsHz(t) == t.physicsHz
TmGetAverageFps(t) == t.averageFps
TmGetPhysicsSteps(t) == t.physicsStepsThisFrame

\* ----------------------------------------------------------------- actions
\* the process was ended by a failed assertion
Aborted == op.name = "abort"

Step(name, arg, steady, t, r) ==
    /\ Created /\ ~Aborted
    /\ UNCHANGED handle
    /\ calls < MaxCalls
    /\ calls' = calls + 1
    /\ tm' = t
    /\ ret' = r
    /\ op' = Call(name, arg, steady)
    /\ hist' = History(hist, name, arg, steady, tm.timeScale, r)

BeginFrame ==
    \E currentTime \in Samples :
        LET r == TmBeginFrame(tm, currentTime)
        IN  /\ Created
            /\ IF AssertFails(tm)
               THEN /\ Step("abort", currentTime, FALSE, tm, NoFrame)
                    /\ UNCHANGED <<fresh, pause>>
               ELSE /\ r.tm.fpsFrameCount <= MaxFrameCount
                    /\ Step("TmBeginFrame", currentTime, ~tm.firstFrame, r.tm, r.ret)
                    /\ fresh' = FALSE
                    /\ pause' = IF pause.state = "open"
                                THEN [pause EXCEPT !.framed = TRUE] ELSE NoPause

SetPhysicsHz ==
    \E physicsHz \in HzInputs :
        /\ Step("TmSetPhysicsHz", physicsHz, FALSE, TmSetPhysicsHz(tm, physicsHz), NoFrame)
        /\ pause' = NoPause
        /\ UNCHANGED fresh

SetPhysicsTimeStep ==
    \E physicsTimeStep \in TimeStepInputs, unspecified \in UnspecifiedLlround :
        /\ Step("TmSetPhysicsTimeStep", physicsTimeStep, FALSE,
                TmSetPhysicsTimeStep(tm, physicsTimeStep, unspecified), NoFrame)
        /\ pause' = NoPause
        /\ UNCHANGED fresh

SetMaxFrameTime ==
    \E maxFrameTime \in MaxFrameTimeInputs :
        /\ Step("TmSetMaxFrameTime", maxFrameTime, FALSE,
                TmSetMaxFrameTime(tm, maxFrameTime), NoFrame)
        /\ pause' = NoPause
        /\ UNCHANGED fresh

SetMaxPhysicsSteps ==
    \E maxPhysicsSteps \in MaxPhysicsStepsInputs :
        /\ Step("TmSetMaxPhysicsSteps", maxPhysicsSteps, FALSE,
                TmSetMaxPhysicsSteps(tm, maxPhysicsSteps), NoFrame)
        /\ pause' = NoPause
        /\ UNCHANGED fresh

SetTimeScale ==
    \E timeScale \in TimeScaleInputs :
        /\ Step("TmSetTimeScale", timeScale, FALSE, TmSetTimeScale(tm, timeScale), NoFrame)
        /\ pause' = NoPause
        /\ UNCHANGED fresh

SetTimeSource ==
    \E nowFn \in TimeSources, sample \in Samples :
        /\ Step("TmSetTimeSource", [nowFn |-> nowFn, sample |-> sample], FALSE,
                TmSetTimeSource(tm, nowFn, sample), NoFrame)
        /\ pause' = NoPause
        /\ UNCHANGED fresh

Reset ==
    \E sample \in Samples :
        /\ Step("TmReset", sample, FALSE, TmReset(tm, sample), NoFrame)
        /\ pause' = NoPause
        /\ fresh' = TRUE

Pause ==
    /\ Step("TmPause", 0, FALSE, TmPause(tm), NoFrame)
    /\ pause' = [state |-> "open", scale |-> tm.timeScale, framed |-> FALSE]
    /\ UNCHANGED fresh

Resume ==
    /\ Step("TmResume", 0, FALSE, TmResume(tm), NoFrame)
    /\ pause' = IF pause.state = "open"
                THEN [pause EXCEPT !.state = "resumed"] ELSE NoPause
    /\ UNCHANGED fresh

Next ==
    \/ BeginFrame
    \/ SetPhysicsHz
    \/ SetPhysicsTimeStep
    \/ SetMaxFrameTime
    \/ SetMaxPhysicsSteps
    \/ SetTimeScale
    \/ SetTimeSource
    \/ Reset
    \/ Pause
    \/ Resume

Spec == Init /\ [][Next]_vars

\* the last call was TmBeginFrame; it took the steady-state branch
Framed == op.name = "TmBeginFrame"
Steady == Framed /\ op.steady

\* ------------------------------------------------------------------ claims

\* C1: immediately after a steady-state TmBeginFrame call the stored
\* accumulator is at least 0 and strictly below physicsTimeStep.
C1_AccumulatorBelowStep ==
    Steady => (0 <= tm.accumulator /\ tm.accumulator < tm.physicsTimeStep)

\* a lagging steady-state call (more than the cap was due) that left a remainder
C1_Witness ==
    Steady /\ ret.lagging /\ tm.accumulator > 0

\* C2: every TmBeginFrame call returns physicsSteps <= the maxPhysicsSteps in
\* effect at that call.
C2_StepsWithinCap ==
    Framed => ret.physicsSteps <= tm.maxPhysicsSteps

\* a capped call after setters changed the cap and the time step
C2_Witness ==
    /\ Steady /\ ret.lagging
    /\ ret.physicsSteps = tm.maxPhysicsSteps
    /\ tm.maxPhysicsSteps # DefaultMaxPhysicsSteps
    /\ tm.physicsHz # DefaultPhysicsHz

\* C3: the first TmBeginFrame call after construction or TmReset returns
\* zero steps, zero frame times, zero alpha and lagging = FALSE whatever the
\* sample, reports the current timeScale, and leaves the accumulator and the
\* FPS window unchanged.
C3_FirstFrameZeroed ==
    [][(fresh /\ op'.name = "TmBeginFrame") =>
          /\ ret'.physicsSteps = 0
          /\ ret'.frameTime = 0
          /\ ret'.rawFrameTime = 0
          /\ ret'.unscaledFrameTime = 0
          /\ ret'.interpolationAlpha = 0
          /\ ret'.lagging = FALSE
          /\ ret'.currentTimeScale = tm.timeScale
          /\ tm'.accumulator = tm.accumulator
          /\ tm'.fpsAccumulator = tm.fpsAccumulator
          /\ tm'.fpsFrameCount = tm.fpsFrameCount
          /\ tm'.averageFps = tm.averageFps]_vars

\* a first call, made with a scale other than 1.0, whose sample lies a full
\* second after the sample taken at construction
C3_Witness ==
    /\ Framed /\ ~op.steady
    /\ op.arg = MaxNs
    /\ ret.currentTimeScale = One \div 2
    /\ ret.rawFrameTime = 0 /\ ret.physicsSteps = 0

\* the accumulator of a steady-state call after its scaled delta was added,
\* read off the state before the call and the snapshot it returned
Accumulated == tm.accumulator + ret'.frameTime

SteadyCall == op'.name = "TmBeginFrame" /\ op'.steady

\* C4 as stated: lagging exactly when the whole steps contained in the
\* accumulator exceed maxPhysicsSteps; physicsSteps is the cap when lagging
\* and floor(accumulator / physicsTimeStep) otherwise.
C4_Original ==
    [][SteadyCall =>
          LET whole == Accumulated \div tm.physicsTimeStep
          IN  /\ ret'.lagging = (whole > tm.maxPhysicsSteps)
              /\ ret'.physicsSteps =
                     IF ret'.lagging THEN tm.maxPhysicsSteps ELSE whole]_vars

\* C4 (amended): lagging exactly when the whole steps contained in the
\* accumulator plus 1e-12 exceed maxPhysicsSteps; physicsSteps is the cap when
\* lagging and floor((accumulator + 1e-12) / physicsTimeStep) otherwise.
C4_LaggingWithEpsilon ==
    [][SteadyCall =>
          LET whole == (Accumulated + StepEpsilon) \div tm.physicsTimeStep
          IN  /\ ret'.lagging = (whole > tm.maxPhysicsSteps)
              /\ ret'.physicsSteps =
                     IF ret'.lagging THEN tm.maxPhysicsSteps ELSE whole]_vars

\* a steady-state call whose candidate equals the cap: all steps returned, not lagging
C4_Witness ==
    /\ Steady /\ ~ret.lagging
    /\ ret.physicsSteps = tm.maxPhysicsSteps
    /\ tm.accumulator + StepEpsilon < tm.physicsTimeStep

\* C5: every TmBeginFrame call returns interpolationAlpha in [0,1]; in steady
\* state it is the accumulator left after consumption divided by
\* physicsTimeStep, so below 1 when the accumulator is below physicsTimeStep.
C5_AlphaIsFraction ==
    Framed =>
        /\ 0 <= ret.interpolationAlpha /\ ret.interpolationAlpha <= One
        /\ Steady =>
             /\ ret.interpolationAlpha * tm.physicsTimeStep <= tm.accumulator * One
             /\ tm.accumulator * One < (ret.interpolationAlpha + 1) * tm.physicsTimeStep
             /\ (tm.accumulator < tm.physicsTimeStep => ret.interpolationAlpha < One)

\* a steady-state call that ends strictly between two physics steps
C5_Witness ==
    /\ Steady
    /\ 0 < ret.interpolationAlpha /\ ret.interpolationAlpha < One
    /\ ret.physicsSteps > 0

\* C6: in a steady-state call rawFrameTime = max(0, sample - lastTime) in
\* seconds, unscaledFrameTime = min(rawFrameTime, maxFrameTime), frameTime =
\* unscaledFrameTime * timeScale, currentTimeScale is the scale in effect, and
\* exactly frameTime is added to the accumulator before steps are taken out.
C6_FrameTimes ==
    [][SteadyCall =>
          LET ticks == op'.arg - tm.lastTime
              raw == ret'.rawFrameTime
              capped == ret'.unscaledFrameTime
              scaled == ret'.frameTime
          IN  /\ IF ticks <= 0 THEN raw = 0
                 ELSE /\ raw * NsPerSecond <= ticks * One
                      /\ ticks * One < (raw + 1) * NsPerSecond
              /\ capped = IF raw <= tm.maxFrameTime THEN raw ELSE tm.maxFrameTime
              /\ scaled * One <= capped * tm.timeScale
              /\ capped * tm.timeScale < (scaled + 1) * One
              /\ ret'.currentTimeScale = tm.timeScale
              /\ tm'.timeScale = tm.timeScale
              /\ Accumulated >= tm'.accumulator
              /\ (Accumulated - tm'.accumulator) % tm.physicsTimeStep = 0
              /\ ret'.physicsSteps * tm.physicsTimeStep <= Accumulated + StepEpsilon]_vars

\* a steady-state call that was capped and then scaled down
C6_Witness ==
    /\ Steady
    /\ ret.rawFrameTime > ret.unscaledFrameTime
    /\ ret.unscaledFrameTime > ret.frameTime
    /\ ret.frameTime > 0

\* C7: TmPause then TmResume, with only TmBeginFrame calls in between, puts
\* timeScale back to the value it had before the pause; in between TmIsPaused
\* is true.
C7_PauseResumeRestores ==
    /\ pause.state = "open" => TmIsPaused(tm)
    /\ pause.state = "resumed" => tm.timeScale = pause.scale

\* a bracket around a scale of 0.5 with a frame inside, just closed by TmResume
C7_Witness ==
    /\ pause.state = "resumed" /\ pause.framed
    /\ pause.scale = One \div 2
    /\ op.name = "TmResume"

\* C8: while timeScale is 0 every steady-state TmBeginFrame returns
\* frameTime = 0 and physicsSteps = 0 and leaves the accumulator unchanged,
\* while rawFrameTime still reports the measured time.
C8_PausedFrameIsInert ==
    [][(SteadyCall /\ tm.timeScale = 0) =>
          /\ ret'.frameTime = 0
          /\ ret'.physicsSteps = 0
          /\ tm'.accumulator = tm.accumulator
          /\ ret'.rawFrameTime = DeltaTime(op'.arg, tm.lastTime)]_vars

\* C9: TmSetPhysicsHz(R) with R > 0 sets physicsHz = R and physicsTimeStep =
\* 1/R; TmSetPhysicsHz(0) leaves the whole clock state unchanged.
C9_SetPhysicsHz ==
    [][op'.name = "TmSetPhysicsHz" =>
          IF op'.arg = 0 THEN tm' = tm
          ELSE /\ tm'.physicsHz = op'.arg
               /\ tm'.physicsTimeStep * op'.arg <= One
               /\ One < (tm'.physicsTimeStep + 1) * op'.arg]_vars

\* a rate of 120 set on a clock that ran at another rate and holds leftover time
C9_Witness ==
    /\ op.name = "TmSetPhysicsHz" /\ op.arg = 120
    /\ tm.physicsHz = 120
    /\ tm.accumulator > tm.physicsTimeStep

StepAfterHz120 ==
    /\ op.name = "TmSetPhysicsHz" /\ op.arg = 120
    /\ op'.name = "TmSetPhysicsTimeStep" /\ op'.arg > 0

C12_ResetEffect ==
    [][op'.name = "TmReset" =>
          /\ tm'.firstFrame = TRUE
          /\ tm'.accumulator = 0
          /\ tm'.fpsAccumulator = 0
          /\ tm'.fpsFrameCount = 0
          /\ tm'.averageFps = 0
          /\ tm'.timeScale = One
          /\ tm'.lastTime = op'.arg
          /\ tm'.physicsHz = tm.physicsHz
          /\ tm'.physicsTimeStep = tm.physicsTimeStep
          /\ tm'.maxFrameTime = tm.maxFrameTime
          /\ tm'.maxPhysicsSteps = tm.maxPhysicsSteps
          /\ tm'.now = tm.now]_vars

\* a reset of a clock that was reconfigured, given another time source and
\* paused at half speed
C12_Witness ==
    /\ op.name = "TmReset" /\ op.arg = 7
    /\ tm.firstFrame /\ tm.timeScale = One /\ tm.lastTime = 7
    /\ tm.timeScaleBeforePause = One \div 2
    /\ tm.now = "fake_now"
    /\ tm.physicsHz # DefaultPhysicsHz

\* C13: TmSetTimeSource stores the new sampling function and sets lastTime to
\* a sample of it, leaving every other field (accumulator, firstFrame,
\* timeScale, configuration) unchanged; a steady-state TmBeginFrame that
\* follows measures from that sample only, not from the old source's lastTime.
C13_TimeSourceReseeds ==
    [][/\ op'.name = "TmSetTimeSource" =>
             /\ tm'.now = op'.arg.nowFn
             /\ tm'.lastTime = op'.arg.sample
             /\ tm' = [tm EXCEPT !.now = op'.arg.nowFn, !.lastTime = op'.arg.sample]
       /\ (op.name = "TmSetTimeSource" /\ SteadyCall) =>
             LET ticks == op'.arg - op.arg.sample
                 raw == ret'.rawFrameTime
             IN  IF ticks <= 0 THEN raw = 0
                 ELSE /\ raw * NsPerSecond <= ticks * One
                      /\ ticks * One < (raw + 1) * NsPerSecond]_vars

\* a running clock holding leftover time, switched to the injected source
\* whose first sample lies before the old source's last sample
C13_Witness ==
    /\ op.name = "TmSetTimeSource"
    /\ op.arg.nowFn = "fake_now" /\ op.arg.sample = 0
    /\ tm.now = "fake_now" /\ tm.lastTime = 0
    /\ ~tm.firstFrame
    /\ tm.accumulator > 0
    /\ tm.fpsAccumulator > 0

\* C14: each steady-state TmBeginFrame adds the raw (unscaled, uncapped)
\* delta to the FPS window and counts the frame; when the window reaches one
\* second averageFps becomes frameCount / windowDuration and the window is
\* zeroed; on every other call, paused and capped frames included, averageFps
\* keeps its value.
C14_FpsWindow ==
    [][/\ SteadyCall =>
             LET duration == tm.fpsAccumulator + ret'.rawFrameTime
                 count == tm.fpsFrameCount + 1
             IN  IF duration >= One
                 THEN /\ tm'.averageFps * duration <= count * One * One
                      /\ count * One * One < (tm'.averageFps + 1) * duration
                      /\ tm'.fpsAccumulator = 0
                      /\ tm'.fpsFrameCount = 0
                 ELSE /\ tm'.fpsAccumulator = duration
                      /\ tm'.fpsFrameCount = count
                      /\ tm'.averageFps = tm.averageFps
       /\ (~SteadyCall /\ op'.name # "TmReset") =>
             /\ tm'.averageFps = tm.averageFps
             /\ tm'.fpsAccumulator = tm.fpsAccumulator
             /\ tm'.fpsFrameCount = tm.fpsFrameCount]_vars

\* a paused, capped frame that closes the window and publishes an average
C14_Witness ==
    /\ Steady
    /\ ret.currentTimeScale = 0
    /\ ret.rawFrameTime > ret.unscaledFrameTime
    /\ tm.fpsAccumulator = 0 /\ tm.fpsFrameCount = 0
    /\ tm.averageFps > 0

\* C15: a clock created with a null configuration has physicsHz = 60,
\* physicsTimeStep = 1/60, maxFrameTime = 0.25 and maxPhysicsSteps = 5; with
\* any configuration it starts with timeScale = 1.0, accumulator = 0,
\* averageFps = 0 and firstFrame = TRUE.
C15_Defaults ==
    (op.name = "TmCreate" /\ Created) =>
        /\ tm.timeScale = One
        /\ tm.accumulator = 0
        /\ tm.averageFps = 0
        /\ tm.firstFrame = TRUE
        /\ op.arg.null =>
             /\ tm.physicsHz = 60
             /\ tm.physicsTimeStep * 60 <= One /\ One < (tm.physicsTimeStep + 1) * 60
             /\ tm.maxFrameTime * 4 <= One /\ One < (tm.maxFrameTime + 1) * 4
             /\ tm.maxPhysicsSteps = 5
        /\ ~op.arg.null =>
             /\ tm.physicsHz = op.arg.physicsHz
             /\ tm.maxFrameTime = op.arg.maxFrameTime
             /\ tm.maxPhysicsSteps = op.arg.maxPhysicsSteps

\* a clock just created from the null configuration
C15_Witness ==
    /\ op.name = "TmCreate" /\ op.arg.null /\ Created
    /\ calls = 0
    /\ tm.physicsHz = 60 /\ tm.maxPhysicsSteps = 5

\* C16: when malloc fails TmCreate returns NULL without reading or writing
\* through the failed allocation.
C16_NullOnAllocationFailure ==
    ~handle.malloc => (handle.result = "NULL" /\ ~handle.memsetOnNull)

\* C17: in a steady-state TmBeginFrame call that is not lagging, exactly the
\* reported steps are consumed: the accumulator after the call is the
\* accumulator before it plus frameTime, minus physicsSteps * physicsTimeStep.
C17_ExactConsumption ==
    [][(SteadyCall /\ ~ret'.lagging) =>
          tm'.accumulator =
              Accumulated - ret'.physicsSteps * tm.physicsTimeStep]_vars

\* C18 as stated: in a lagging steady-state call the remainder of the
\* accumulator modulo physicsTimeStep equals the accumulator minus
\* physicsSteps * physicsTimeStep.
C18_Original ==
    [][(SteadyCall /\ ret'.lagging) =>
          tm'.accumulator =
              Accumulated - ret'.physicsSteps * tm.physicsTimeStep]_vars

\* C18 (amended): in a lagging steady-state call the remainder modulo
\* physicsTimeStep is the explicit subtraction of physicsSteps *
\* physicsTimeStep minus the dropped backlog, a whole number of time steps;
\* the two agree only when the accumulator is below maxPhysicsSteps + 1 steps.
C18_BacklogDropped ==
    [][(SteadyCall /\ ret'.lagging) =>
          LET explicit == Accumulated - ret'.physicsSteps * tm.physicsTimeStep
              dropped == explicit - tm'.accumulator
          IN  /\ ret'.physicsSteps = tm.maxPhysicsSteps
              /\ dropped >= 0
              /\ dropped % tm.physicsTimeStep = 0
              /\ (dropped = 0) <=>
                     (Accumulated < (tm.maxPhysicsSteps + 1) * tm.physicsTimeStep)]_vars

\* a lagging call whose frame time alone holds two steps more than the cap
C18_Witness ==
    /\ Steady /\ ret.lagging
    /\ ret.physicsSteps = tm.maxPhysicsSteps
    /\ ret.frameTime >= (tm.maxPhysicsSteps + 2) * tm.physicsTimeStep

\* C19: backlog beyond the step cap is dropped, not carried over: after a
\* lagging TmBeginFrame call, a following TmBeginFrame call with zero elapsed
\* time and unchanged configuration returns physicsSteps = 0 and lagging = FALSE.
C19_NoStepsAfterLag ==
    [][(/\ Steady /\ ret.lagging
        /\ op'.name = "TmBeginFrame" /\ op'.arg = tm.lastTime) =>
          (ret'.physicsSteps = 0 /\ ~ret'.lagging)]_vars

\* C20: in every state reachable through the public operations from a valid
\* construction, physicsTimeStep > 0, physicsHz >= 1, maxFrameTime > 0,
\* maxPhysicsSteps >= 1 and timeScale >= 0, so the assertion
\* physicsTimeStep > 0 of TmBeginFrame never fails.
C20_ValidConfiguration ==
    Created =>
        /\ ~isnan(tm.physicsTimeStep) /\ tm.physicsTimeStep > 0
        /\ tm.physicsHz >= 1
        /\ tm.maxFrameTime > 0
        /\ tm.maxPhysicsSteps >= 1
        /\ tm.timeScale >= 0
        /\ ~Aborted

\* C21: when the time source returns a sample earlier than lastTime, the
\* steady-state TmBeginFrame reports rawFrameTime = 0, unscaledFrameTime = 0
\* and frameTime = 0, adds nothing to the accumulator (only whole steps
\* already in it are taken out), and stores the earlier sample as lastTime;
\* the following call measures its delta from that earlier sample.
C21_BackwardSample ==
    [][/\ (SteadyCall /\ op'.arg < tm.lastTime) =>
             /\ ret'.rawFrameTime = 0
             /\ ret'.unscaledFrameTime = 0
             /\ ret'.frameTime = 0
             /\ tm'.accumulator <= tm.accumulator
             /\ (tm.accumulator - tm'.accumulator) % tm.physicsTimeStep = 0
             /\ tm'.lastTime = op'.arg
       /\ (hist.back /\ SteadyCall /\ op'.arg >= op.arg) =>
             /\ tm.lastTime = op.arg
             /\ ret'.rawFrameTime * NsPerSecond <= (op'.arg - op.arg) * One
             /\ (op'.arg - op.arg) * One < (ret'.rawFrameTime + 1) * NsPerSecond
      ]_vars

\* a call that followed one with an earlier sample and measured a delta from it
C21_Witness ==
    /\ Steady /\ ~hist.back
    /\ hist.period = "broken"
    /\ calls = 3 /\ tm.fpsFrameCount = 2
    /\ op.arg = 7
    /\ ret.rawFrameTime = DDiv(ToDouble(7), ToDouble(NsPerSecond))

\* C22: with a non-decreasing time source and no TmSetTimeSource or TmReset
\* in between, the sum of rawFrameTime over all steady-state TmBeginFrame
\* calls is the latest sample minus the sample taken by the first-frame call
\* (each delta rounded down onto the grid, so short by less than one quantum
\* per call), whatever maxFrameTime and timeScale are.
C22_ExactBookkeeping ==
    hist.period = "exact" =>
        /\ hist.sample = tm.lastTime
        /\ hist.drift <= 0
        /\ hist.drift > 0 - NsPerSecond * calls
        /\ (One % NsPerSecond = 0) => hist.drift = 0

\* a frame cut by the cap and slowed by the time scale, in an unbroken period
C22_Witness ==
    /\ Steady /\ hist.period = "exact"
    /\ ret.unscaledFrameTime < ret.rawFrameTime
    /\ 0 < ret.frameTime /\ ret.frameTime < ret.unscaledFrameTime

\* C23: two consecutive TmPause calls overwrite the saved pre-pause scale
\* with 0: after TmPause, TmPause, TmResume the timeScale is 0 and TmIsPaused
\* is still true.
C23_DoublePauseLosesScale ==
    [][/\ (hist.pauses >= 1 /\ op'.name = "TmPause") =>
             /\ tm'.timeScaleBeforePause = 0
             /\ tm'.timeScale = 0
       /\ (hist.pauses = 2 /\ op'.name = "TmResume") =>
             /\ tm'.timeScale = 0
             /\ TmIsPaused(tm')
      ]_vars

\* TmPause, TmPause, TmResume on a new clock, whose scale was 1.0
C23_Witness ==
    /\ op.name = "TmResume" /\ hist.doubled
    /\ calls = 3
    /\ hist.pauseScale = 0
    /\ TmGetTimeScale(tm) = 0

\* C24: firstFrame is true exactly in the states where no TmBeginFrame has
\* been called since construction or the last TmReset: a TmBeginFrame call
\* takes the first-frame branch exactly then and the steady-state branch
\* otherwise, and no setter, TmPause, TmResume or TmSetTimeSource changes
\* firstFrame.
C24_FirstFrameOnce ==
    /\ [](Created => (tm.firstFrame <=> fresh))
    /\ [][/\ op'.name = "TmBeginFrame" =>
                /\ op'.steady <=> ~fresh
                /\ ~tm'.firstFrame
          /\ op'.name = "TmReset" => tm'.firstFrame
          /\ op'.name \notin {"TmBeginFrame", "TmReset"} =>
                tm'.firstFrame = tm.firstFrame
         ]_vars

\* a late TmBeginFrame on the steady-state branch, firstFrame cleared, the
\* only steady frame in its FPS window
C24_Witness ==
    /\ Steady /\ ~tm.firstFrame /\ ~fresh
    /\ calls = 5
    /\ hist.period = "exact" /\ hist.drift = 0
    /\ tm.fpsFrameCount = 1
    /\ tm.timeScale = One /\ tm.averageFps = 0

\* C25: TmResume always sets timeScale to the value timeScale had at the most
\* recent TmPause, or to 1.0 if TmPause has never been called since
\* construction, whatever TmSetTimeScale, TmReset or TmBeginFrame calls came
\* in between: none of them touches the saved pre-pause scale.
C25_ResumeRestoresLastPause ==
    /\ [](Created => tm.timeScaleBeforePause = hist.pauseScale)
    /\ [][op'.name = "TmResume" => tm'.timeScale = hist.pauseScale]_vars

\* a TmResume with no pause bracket open (another call came after the
\* TmPause) that put back the scale of 0.5 saved by that TmPause
C25_Witness ==
    /\ op.name = "TmResume" /\ pause.state = "none"
    /\ fresh /\ tm.firstFrame
    /\ hist.pauseScale = One \div 2
    /\ tm.timeScale = One \div 2

\* C26: the accumulator is changed only by a steady-state TmBeginFrame and by
\* TmReset: the setters, TmSetTimeSource, TmPause, TmResume and the
\* first-frame TmBeginFrame leave it unchanged, so leftover time is kept, not
\* rescaled, when the time step changes.
C26_AccumulatorWriters ==
    [][(op'.name # "TmReset" /\ ~SteadyCall) =>
          TmGetAccumulator(tm') = TmGetAccumulator(tm)]_vars

\* a new rate set while the accumulator holds more than one of the new steps
C26_Witness ==
    /\ op.name = "TmSetPhysicsHz" /\ op.arg = 120
    /\ tm.physicsTimeStep = One \div 120
    /\ tm.accumulator > tm.physicsTimeStep

\* C27: in every reachable state TmGetPhysicsSteps returns the physicsSteps
\* of the snapshot returned by the most recent TmBeginFrame call (the zeroed
\* first-frame call included), or 0 if no TmBeginFrame has been called since
\* construction or the last TmReset.
C27_StepsOfLastFrame ==
    Created =>
        /\ TmGetPhysicsSteps(tm) = hist.steps
        /\ fresh => TmGetPhysicsSteps(tm) = 0
        /\ Framed => TmGetPhysicsSteps(tm) = ret.physicsSteps

\* the step count of an earlier frame still returned after a later setter call
C27_Witness ==
    /\ op.name = "TmSetTimeScale"
    /\ ~fresh
    /\ hist.steps > 0
    /\ TmGetPhysicsSteps(tm) = hist.steps

====
